---- MODULE Spec2Model ----
(***************************************************************************)
(* Model of watermark_photos.py: batch stamping of the capture time in the *)
(* bottom-right corner of photographs.                                     *)
(*                                                                         *)
(* Four specifications share the module:                                   *)
(*   SpecFont  - _calculate_optimal_font_size on bounded inputs            *)
(*   SpecTime  - get_photo_taken_time on bounded inputs                    *)
(*   SpecPos   - _calculate_watermark_position followed by                 *)
(*               _add_text_with_orientation on bounded inputs              *)
(*   Spec      - main / process_folder / add_watermark over a folder       *)
(***************************************************************************)
EXTENDS Integers, Sequences, FiniteSets, TLC

VARIABLES
    pc,               \* position of the running function
    img_width,        \* image.size[0]  (raw pixel buffer width)
    img_height,       \* image.size[1]  (raw pixel buffer height)
    text_len,         \* len(text) of the watermark text
    font_size,        \* value returned by _calculate_optimal_font_size
    file,             \* the file at image_path: how it opens, its EXIF, its mtime
    clock,            \* datetime.now()
    taken_time,       \* outcome of get_photo_taken_time
    image,            \* the opened image: what image._getexif() does
    text_width,       \* bbox[2] - bbox[0] of the measured text
    text_height,      \* bbox[3] - bbox[1] of the measured text
    calc,             \* locals of _calculate_watermark_position and its result
    drawn,            \* what _add_text_with_orientation put on the image
    input_exists,     \* os.path.exists(args.input_folder)
    input_is_dir,     \* os.path.isdir(args.input_folder)
    listing,          \* os.listdir(input_folder), in the order it is iterated
    idx,              \* number of entries of the listing the loop has visited
    total_count,      \* process_folder's total_count
    processed_count,  \* process_folder's processed_count
    results,          \* per visited entry: "skipped", "ok" or "failed"
    outputs,          \* per entry: the state of mask/watermarked_<filename>
    last,             \* the latest add_watermark call: what it read and wrote
    exit_status       \* -1 while running, then the status of the process

fontVars == <<img_width, img_height, text_len, font_size>>

timeVars == <<file, clock, taken_time>>

posVars == <<image, text_width, text_height, calc, drawn>>

batchVars == <<input_exists, input_is_dir, listing, idx, total_count,
               processed_count, results, outputs, last, exit_status>>

vars == <<pc, fontVars, timeVars, posVars, batchVars>>

Min(a, b) == IF a <= b THEN a ELSE b

Max(a, b) == IF a >= b THEN a ELSE b

(***************************************************************************)
(* Bounds of the font-size inputs.                                         *)
(***************************************************************************)
MaxTextLen == 20

MaxFontDimK == 8

TextLens == 1..MaxTextLen

\* image sides: multiples of 50, plus the sides of the spec's 4000x3000
\* scenario and the extremes around the 200-pixel threshold
FontDims == {50 * k : k \in 1..MaxFontDimK} \cup {1, 199, 3000, 4000}

(***************************************************************************)
(* int(x ** 0.5): the largest s with s*s <= n, by bisection.               *)
(***************************************************************************)
RECURSIVE ISqrtIter(_, _, _)
ISqrtIter(n, lo, hi) ==
    IF lo >= hi THEN lo
    ELSE LET mid == (lo + hi + 1) \div 2
         IN  IF mid * mid <= n THEN ISqrtIter(n, mid, hi)
                               ELSE ISqrtIter(n, lo, mid - 1)

ISqrt(n) == ISqrtIter(n, 0, Min(n, 46340))

(***************************************************************************)
(* _calculate_optimal_font_size, lines 106-113: the unclamped size         *)
(*   int((img_area * 0.03 / (len(text) * 0.6 * 2)) ** 0.5)                 *)
(* with 0.03 = 3/100 and 0.6 = 6/10 kept as exact fractions.               *)
(***************************************************************************)
RawFontSize(len, w, h) ==
    LET img_area == w * h
    IN  ISqrt((img_area * 3 * 10) \div (100 * len * 6 * 2))

min_font_size == 20

\* the upper bound taken from the larger side instead of the smaller one
MaxSideFontSize(w, h) == Max(w, h) \div 10

\* line 117
max_font_size(w, h) == Min(w, h) \div 10

\* a clamp with the bounds applied in the wrong order: the upper bound wins
ClampUpperWins(size, w, h) == Min(Max(min_font_size, size), max_font_size(w, h))

\* line 119: max(min_font_size, min(font_size, max_font_size))
ClampFontSize(size, w, h) == Max(min_font_size, Min(size, max_font_size(w, h)))

CalculateOptimalFontSize(len, w, h) ==
    ClampFontSize(RawFontSize(len, w, h), w, h)


----------------------------------------------------------------------------
(***************************************************************************)
(* Strings the model has to look into are tuples of one-character strings. *)
(***************************************************************************)
Digits == <<"0", "1", "2", "3", "4", "5", "6", "7", "8", "9">>

IsDigit(c) == \E i \in 1..10 : Digits[i] = c

DigitVal(c) == (CHOOSE i \in 1..10 : Digits[i] = c) - 1

RECURSIVE Num(_, _, _)
\* int(v[from..to]) for a run of digits
Num(v, from, to) ==
    IF from > to THEN 0
    ELSE 10 * Num(v, from, to - 1) + DigitVal(v[to])

IsLeap(y) == (y % 4 = 0 /\ y % 100 # 0) \/ y % 400 = 0

DaysIn(y, m) ==
    IF m = 2 THEN (IF IsLeap(y) THEN 29 ELSE 28)
    ELSE IF m \in {4, 6, 9, 11} THEN 30 ELSE 31

NoTime == [year |-> 0, month |-> 0, day |-> 0,
           hour |-> 0, minute |-> 0, second |-> 0]

(***************************************************************************)
(* datetime.strptime(value, '%Y:%m:%d %H:%M:%S') on fixed-width values:    *)
(* ok = FALSE stands for the ValueError it raises when the value does not  *)
(* match the pattern or names no calendar date or time of day.             *)
(***************************************************************************)
Strptime(v) ==
    LET shape == /\ Len(v) = 19
                 /\ \A i \in 1..19 :
                      IF i \in {5, 8, 14, 17} THEN v[i] = ":"
                      ELSE IF i = 11 THEN v[i] = " "
                      ELSE IsDigit(v[i])
        t == [year |-> Num(v, 1, 4), month |-> Num(v, 6, 7),
              day |-> Num(v, 9, 10), hour |-> Num(v, 12, 13),
              minute |-> Num(v, 15, 16), second |-> Num(v, 18, 19)]
    IN  IF shape
        THEN IF /\ t.year >= 1
                /\ t.month \in 1..12
                /\ t.day \in 1..DaysIn(t.year, t.month)
                /\ t.hour <= 23 /\ t.minute <= 59 /\ t.second <= 59
             THEN [ok |-> TRUE, time |-> t]
             ELSE [ok |-> FALSE, time |-> NoTime]
        ELSE [ok |-> FALSE, time |-> NoTime]

(***************************************************************************)
(* EXIF dictionaries: functions from tag numbers to values.  An empty      *)
(* dictionary stands for both {} and None, which `if exif_data:` treats    *)
(* alike.                                                                  *)
(***************************************************************************)
OrientationTag == 274

DateTimeOriginalTag == 36867

EmptyExif == [t \in {} |-> 0]

ExifGet(d, k, default) == IF k \in DOMAIN d THEN d[k] ELSE default

StampValid == <<"2","0","2","4",":","0","3",":","1","5"," ",
                "1","0",":","3","0",":","0","0">>

StampLeapDay == <<"2","0","2","4",":","0","2",":","2","9"," ",
                  "2","3",":","5","9",":","5","9">>

StampDashes == <<"2","0","2","4","-","0","3","-","1","5"," ",
                 "1","0",":","3","0",":","0","0">>

StampMonth13 == <<"2","0","2","4",":","1","3",":","1","5"," ",
                  "1","0",":","3","0",":","0","0">>

StampFeb30 == <<"2","0","2","3",":","0","2",":","3","0"," ",
                "1","0",":","3","0",":","0","0">>

StampZero == <<"0","0","0","0",":","0","0",":","0","0"," ",
               "0","0",":","0","0",":","0","0">>

StampDateOnly == <<"2","0","2","4",":","0","3",":","1","5">>

StampEmpty == <<>>

Stamps == {StampValid, StampLeapDay, StampDashes, StampMonth13, StampFeb30,
           StampZero, StampDateOnly, StampEmpty}

\* the EXIF dictionaries image._getexif() can return
ExifDicts ==
    {EmptyExif}
    \cup {[t \in {OrientationTag} |-> o] : o \in {1, 6}}
    \cup {[t \in {DateTimeOriginalTag} |-> v] : v \in Stamps}
    \cup {[t \in {OrientationTag, DateTimeOriginalTag} |->
             IF t = OrientationTag THEN 6 ELSE v] : v \in Stamps}

MTimeA == [year |-> 2021, month |-> 7, day |-> 4,
           hour |-> 8, minute |-> 5, second |-> 9]

MTimeB == [year |-> 2025, month |-> 12, day |-> 31,
           hour |-> 23, minute |-> 59, second |-> 59]

NowA == [year |-> 2026, month |-> 1, day |-> 2,
         hour |-> 3, minute |-> 4, second |-> 5]

NowB == [year |-> 2026, month |-> 6, day |-> 7,
         hour |-> 18, minute |-> 19, second |-> 20]

\* a file: whether Image.open succeeds, whether _getexif raises, what it
\* returns, and whether os.path.getmtime succeeds and with what
Files ==
    [open_ok : BOOLEAN, exif_raises : BOOLEAN, exif : ExifDicts,
     mtime_ok : BOOLEAN, mtime : {MTimeA, MTimeB}]

\* lines 24-35 without the try/except: what goes wrong in reading the EXIF
\* data reaches the caller
ReadExifTimeUncaught(f) ==
    IF ~f.open_ok \/ f.exif_raises THEN [found |-> FALSE, raised |-> TRUE,
                                          time |-> NoTime]
    ELSE IF DateTimeOriginalTag \in DOMAIN f.exif
    THEN LET p == Strptime(f.exif[DateTimeOriginalTag])
         IN  [found |-> p.ok, raised |-> ~p.ok, time |-> p.time]
    ELSE [found |-> FALSE, raised |-> FALSE, time |-> NoTime]

(***************************************************************************)
(* get_photo_taken_time, lines 24-35: the EXIF capture time, when the file *)
(* opens, its EXIF data can be read, holds DateTimeOriginal and the value  *)
(* parses.  Every exception is caught and printed.                         *)
(***************************************************************************)
ReadExifTime(f) ==
    IF ~f.open_ok \/ f.exif_raises THEN [found |-> FALSE, raised |-> FALSE,
                                          time |-> NoTime]
    ELSE IF DateTimeOriginalTag \in DOMAIN f.exif
    THEN LET p == Strptime(f.exif[DateTimeOriginalTag])
         IN  [found |-> p.ok, raised |-> FALSE, time |-> p.time]
    ELSE [found |-> FALSE, raised |-> FALSE, time |-> NoTime]

\* lines 19-43
GetPhotoTakenTime(f, now) ==
    LET e == ReadExifTime(f)
    IN  IF e.raised THEN [raised |-> TRUE, source |-> "none", time |-> NoTime]
        ELSE IF e.found THEN [raised |-> FALSE, source |-> "exif", time |-> e.time]
        ELSE IF f.mtime_ok
        THEN [raised |-> FALSE, source |-> "mtime", time |-> f.mtime]
        ELSE [raised |-> FALSE, source |-> "now", time |-> now]

NoResult == [raised |-> FALSE, source |-> "none", time |-> NoTime]

NoFile == [open_ok |-> FALSE, exif_raises |-> FALSE, exif |-> EmptyExif,
           mtime_ok |-> FALSE, mtime |-> MTimeA]

TimeIdle ==
    /\ file = NoFile
    /\ clock = NowA
    /\ taken_time = NoResult

FontIdle ==
    /\ img_width = 0
    /\ img_height = 0
    /\ text_len = 0
    /\ font_size = 0

----------------------------------------------------------------------------
(***************************************************************************)
(* Bounds of the placement inputs.                                         *)
(***************************************************************************)
MaxPosDimK == 11

MaxTextWidthK == 5

MaxTextHeightK == 3

\* raw image sides from 201 to 1531 pixels, of both parities: every text
\* below fits any of them together with its margin
PosDims == {k * k * k + 200 : k \in 1..MaxPosDimK}

\* measured text extents
TextWidths == {j * j * j + 2 : j \in 1..MaxTextWidthK}

TextHeights == {j * j + 1 : j \in 1..MaxTextHeightK}

\* an opened image, as far as its EXIF data goes: _getexif raises (or is
\* missing), or returns a dictionary
Images ==
    {[exif_raises |-> TRUE, exif |-> EmptyExif]}
    \cup {[exif_raises |-> FALSE, exif |-> d] :
            d \in {EmptyExif, [t \in {DateTimeOriginalTag} |-> StampValid]}
                  \cup {[t \in {OrientationTag} |-> o] : o \in 0..9}}

\* image._getexif() returned a non-empty dictionary
HasExif(img) == ~img.exif_raises /\ DOMAIN img.exif # {}

\* orientation = exif_data.get(274, 1)
Orientation(img) == ExifGet(img.exif, OrientationTag, 1)

(***************************************************************************)
(* _get_actual_dimensions, lines 216-244: the displayed size.              *)
(***************************************************************************)
GetActualDimensions(img, w, h) ==
    IF HasExif(img) /\ Orientation(img) \in {5, 6, 7, 8}
    THEN <<h, w>>
    ELSE <<w, h>>

(***************************************************************************)
(* _adjust_position_for_orientation, lines 262-297.                        *)
(***************************************************************************)
AdjustPositionForOrientation(w, h, aw, ah, tw, th, margin, img) ==
    LET actual_x == aw - tw - margin
        actual_y == ah - th - margin
        o == Orientation(img)
    IN  IF HasExif(img) /\ o \in 1..8
        THEN CASE o = 1 -> <<actual_x, actual_y>>
               [] o = 2 -> <<w - actual_x - tw, actual_y>>
               [] o = 3 -> <<w - actual_x - tw, h - actual_y - th>>
               [] o = 4 -> <<actual_x, h - actual_y - th>>
               [] o = 5 -> <<h - actual_y - th, actual_x>>
               [] o = 6 -> <<actual_y, w - actual_x - tw>>
               [] o = 7 -> <<actual_y, w - (aw - actual_x - tw)>>
               [] o = 8 -> <<h - actual_x - tw, actual_y>>
        ELSE <<w - tw - margin, h - th - margin>>

\* line 184
Margin(aw, ah) == Max(10, Min(aw, ah) \div 100)

\* lines 194-197
ClampNegative(v, dim) == IF v < 0 THEN Max(0, dim \div 20) ELSE v

(***************************************************************************)
(* _calculate_watermark_position, lines 172-203: its locals and result.    *)
(***************************************************************************)
CalculateWatermarkPosition(img, w, h, tw, th) ==
    LET actual == GetActualDimensions(img, w, h)
        margin == Margin(actual[1], actual[2])
        adj == AdjustPositionForOrientation(w, h, actual[1], actual[2],
                                            tw, th, margin, img)
    IN  [actual_width |-> actual[1], actual_height |-> actual[2],
         margin |-> margin, adjusted |-> adj,
         position |-> <<ClampNegative(adj[1], w), ClampNegative(adj[2], h)>>]

(***************************************************************************)
(* Rectangles, in half pixels so that a quarter turn about the centre of a *)
(* canvas whose sides differ by an odd number stays exact.                 *)
(***************************************************************************)
EmptyRect == [l |-> 0, t |-> 0, r |-> 0, b |-> 0]

\* the pixels a text of extent (tw, th) covers when drawn at pos
TextBox(pos, tw, th) ==
    [l |-> 2 * pos[1], t |-> 2 * pos[2],
     r |-> 2 * (pos[1] + tw), b |-> 2 * (pos[2] + th)]

\* what of a rectangle falls on a canvas of w by h pixels
Clip(rect, w, h) ==
    LET c == [l |-> Max(rect.l, 0), t |-> Max(rect.t, 0),
              r |-> Min(rect.r, 2 * w), b |-> Min(rect.b, 2 * h)]
    IN  IF c.l < c.r /\ c.t < c.b THEN c ELSE EmptyRect

\* Image.rotate(angle, expand=False): a counter-clockwise turn about the
\* centre of the w by h canvas, the canvas keeping its size
Rotate(rect, angle, w, h) ==
    IF rect = EmptyRect THEN EmptyRect
    ELSE Clip(CASE angle = 180 ->
                     [l |-> 2 * w - rect.r, t |-> 2 * h - rect.b,
                      r |-> 2 * w - rect.l, b |-> 2 * h - rect.t]
                [] angle = 90 ->
                     [l |-> w - h + rect.t, t |-> h + w - rect.r,
                      r |-> w - h + rect.b, b |-> h + w - rect.l]
                [] angle = -90 ->
                     [l |-> w + h - rect.b, t |-> h - w + rect.l,
                      r |-> w + h - rect.t, b |-> h - w + rect.r]
                [] OTHER -> rect,
              w, h)

\* the branch of tag 6 taken for tag 7 as well
LayerAngleWithTag7(img) ==
    IF HasExif(img)
    THEN CASE Orientation(img) = 3 -> 180
           [] Orientation(img) = 6 -> 90
           [] Orientation(img) = 7 -> 90
           [] Orientation(img) = 8 -> -90
           [] OTHER -> 0
    ELSE 0

\* lines 312-353: the angle the scratch layer is turned by; 0 stands for the
\* branches that draw on the image itself
LayerAngle(img) ==
    IF HasExif(img)
    THEN CASE Orientation(img) = 3 -> 180
           [] Orientation(img) = 6 -> 90
           [] Orientation(img) = 8 -> -90
           [] OTHER -> 0
    ELSE 0

(***************************************************************************)
(* _add_text_with_orientation, lines 310-353: how the text was drawn and   *)
(* the part of the raw image it covers.                                    *)
(***************************************************************************)
AddTextWithOrientation(img, w, h, tw, th, pos) ==
    LET angle == LayerAngle(img)
    IN  IF angle = 0
        THEN [via |-> "direct", angle |-> 0, layer_size |-> <<0, 0>>,
              expand |-> FALSE, paste_at |-> <<0, 0>>,
              box |-> Clip(TextBox(pos, tw, th), w, h)]
        ELSE [via |-> "layer", angle |-> angle, layer_size |-> <<w, h>>,
              expand |-> FALSE, paste_at |-> <<0, 0>>,
              box |-> Rotate(Clip(TextBox(pos, tw, th), w, h), angle, w, h)]

(***************************************************************************)
(* What a viewer honouring the orientation tag sees of a rectangle of the  *)
(* raw w by h image: 2 mirrored left-right, 3 turned by 180, 4 mirrored    *)
(* top-bottom, 5 transposed, 6 turned clockwise, 7 transposed about the    *)
(* other diagonal, 8 turned counter-clockwise.                             *)
(***************************************************************************)
VisualRect(rect, o, w, h) ==
    CASE o = 2 -> [l |-> 2 * w - rect.r, t |-> rect.t,
                   r |-> 2 * w - rect.l, b |-> rect.b]
      [] o = 3 -> [l |-> 2 * w - rect.r, t |-> 2 * h - rect.b,
                   r |-> 2 * w - rect.l, b |-> 2 * h - rect.t]
      [] o = 4 -> [l |-> rect.l, t |-> 2 * h - rect.b,
                   r |-> rect.r, b |-> 2 * h - rect.t]
      [] o = 5 -> [l |-> rect.t, t |-> rect.l, r |-> rect.b, b |-> rect.r]
      [] o = 6 -> [l |-> 2 * h - rect.b, t |-> rect.l,
                   r |-> 2 * h - rect.t, b |-> rect.r]
      [] o = 7 -> [l |-> 2 * h - rect.b, t |-> 2 * w - rect.r,
                   r |-> 2 * h - rect.t, b |-> 2 * w - rect.l]
      [] o = 8 -> [l |-> rect.t, t |-> 2 * w - rect.r,
                   r |-> rect.b, b |-> 2 * w - rect.l]
      [] OTHER -> rect

NoImage == [exif_raises |-> FALSE, exif |-> EmptyExif]

NoCalc == [actual_width |-> 0, actual_height |-> 0, margin |-> 0,
           adjusted |-> <<0, 0>>, position |-> <<0, 0>>]

NoDrawing == [via |-> "none", angle |-> 0, layer_size |-> <<0, 0>>,
              expand |-> FALSE, paste_at |-> <<0, 0>>, box |-> EmptyRect]

PosIdle ==
    /\ image = NoImage
    /\ text_width = 0
    /\ text_height = 0
    /\ calc = NoCalc
    /\ drawn = NoDrawing

----------------------------------------------------------------------------
(***************************************************************************)
(* File names, as tuples of characters.                                    *)
(***************************************************************************)
Uppers == <<"A", "B", "C", "D", "E", "F", "G", "H", "I", "J", "K", "L", "M",
            "N", "O", "P", "Q", "R", "S", "T", "U", "V", "W", "X", "Y", "Z">>

Lowers == <<"a", "b", "c", "d", "e", "f", "g", "h", "i", "j", "k", "l", "m",
            "n", "o", "p", "q", "r", "s", "t", "u", "v", "w", "x", "y", "z">>

LowerChar(c) ==
    IF \E i \in 1..26 : Uppers[i] = c
    THEN Lowers[CHOOSE i \in 1..26 : Uppers[i] = c]
    ELSE c

\* str.lower()
Lower(name) == [i \in 1..Len(name) |-> LowerChar(name[i])]

\* str.endswith(suffix)
EndsWith(name, suffix) ==
    /\ Len(name) >= Len(suffix)
    /\ SubSeq(name, Len(name) - Len(suffix) + 1, Len(name)) = suffix

\* line 431
supported_formats ==
    {<<".", "j", "p", "g">>, <<".", "j", "p", "e", "g">>,
     <<".", "p", "n", "g">>, <<".", "b", "m", "p">>,
     <<".", "t", "i", "f", "f">>, <<".", "t", "i", "f">>}

\* the test of the extension without the lower-casing
IsSupportedCaseSensitive(name) ==
    \E suffix \in supported_formats : EndsWith(name, suffix)

\* line 446: filename.lower().endswith(supported_formats)
IsSupported(name) ==
    \E suffix \in supported_formats : EndsWith(Lower(name), suffix)

\* os.path.splitext(path)[1]: from the last dot on, a leading dot not counting
Splitext(name) ==
    LET dots == {i \in 2..Len(name) : name[i] = "."}
    IN  IF dots = {} THEN <<>>
        ELSE SubSeq(name, CHOOSE i \in dots : \A j \in dots : j <= i,
                    Len(name))

\* lines 412-421: the format inferred from the extension of the output path
InferFormat(name) ==
    LET ext == Lower(Splitext(name))
    IN  CASE ext \in {<<".", "j", "p", "g">>, <<".", "j", "p", "e", "g">>}
               -> "JPEG"
          [] ext = <<".", "p", "n", "g">> -> "PNG"
          [] ext = <<".", "b", "m", "p">> -> "BMP"
          [] ext \in {<<".", "t", "i", "f", "f">>, <<".", "t", "i", "f">>}
               -> "TIFF"
          [] OTHER -> "JPEG"

NameLowerJpg == <<"a", ".", "j", "p", "g">>

NameMixedJpeg == <<"B", ".", "J", "P", "e", "G">>

NameTif == <<"c", ".", "T", "i", "f">>

NameTxt == <<"d", ".", "t", "x", "t">>

NameMask == <<"m", "a", "s", "k">>

\* the entries a folder may hold, the output folder mask among them
Names == {NameLowerJpg, NameMixedJpeg, NameTif, NameTxt, NameMask}

MaxFiles == 3

\* listings: the entries of a folder are distinct and come in any order
Listings ==
    {l \in UNION {[1..n -> Names] : n \in 0..MaxFiles} :
        \A i \in DOMAIN l, j \in DOMAIN l : i # j => l[i] # l[j]}

(***************************************************************************)
(* Metadata of a decoded image: image.format and image.info, a dictionary  *)
(* from keys to opaque values; the EXIF blob sits under "exif".            *)
(***************************************************************************)
NoInfo == [k \in {} |-> ""]

Infos ==
    {NoInfo,
     [k \in {"exif"} |-> "exif-with-orientation-6"],
     [k \in {"dpi"} |-> "72x72"],
     [k \in {"exif", "dpi", "icc_profile"} |->
        CASE k = "exif" -> "exif-with-orientation-3"
          [] k = "dpi" -> "300x300"
          [] OTHER -> "sRGB"]}

Photos == [format : {"JPEG", "PNG"}, info : Infos]

\* dict.get(key, default)
InfoGet(d, k, default) == IF k \in DOMAIN d THEN d[k] ELSE default

\* the keyword arguments without the EXIF blob
SaveKwargsWithoutExif(name, original_format, original_info, original_exif) ==
    LET others == DOMAIN original_info \ {"exif"}
        keys == others \cup {"format"}
    IN  [k \in keys |->
           CASE k = "format" ->
                  IF original_format # "" THEN original_format
                  ELSE InferFormat(name)
             [] OTHER -> original_info[k]]

(***************************************************************************)
(* _save_image_with_metadata, lines 396-421: the keyword arguments handed  *)
(* to image.save for the output path named name.                           *)
(***************************************************************************)
SaveKwargs(name, original_format, original_info, original_exif) ==
    LET others == DOMAIN original_info \ {"exif"}
        keys == (IF original_exif # "" THEN {"exif"} ELSE {})
                    \cup others \cup {"format"}
    IN  [k \in keys |->
           CASE k = "exif" -> original_exif
             [] k = "format" ->
                  IF original_format # "" THEN original_format
                  ELSE InferFormat(name)
             [] OTHER -> original_info[k]]

(***************************************************************************)
(* What can go wrong in add_watermark: Image.open raises; drawing raises   *)
(* (measuring or compositing the text forces the pixel data to load);      *)
(* image.save raises before it opens the output file (refused) or after    *)
(* it opened it for writing (aborted).                                     *)
(***************************************************************************)
Outcomes == {"ok", "open_raises", "draw_raises", "save_refused",
             "save_aborted", "save_aborted_removed"}

(***************************************************************************)
(* line 424, image.save(output_path, ...): the output file afterwards.     *)
(* The file is written in place.  A save that aborts leaves what was       *)
(* written so far, unless the library removes a file it had just created.  *)
(***************************************************************************)
OutputAfterSave(outcome, before) ==
    CASE outcome = "ok" -> "complete"
      [] outcome = "save_aborted" -> "partial"
      [] outcome = "save_aborted_removed" ->
           IF before = "absent" THEN "absent" ELSE "partial"
      [] OTHER -> before

NoKwargs == [k \in {} |-> ""]

NoCall == [returned |-> FALSE, decoded |-> FALSE,
           photo |-> [format |-> "", info |-> NoInfo],
           pixels |-> "none", image_info |-> NoInfo, image_format |-> "",
           save_called |-> FALSE, save_kwargs |-> NoKwargs]

(***************************************************************************)
(* add_watermark, lines 57-91, on a file that decodes to photo (when it    *)
(* decodes), with the output named name in state before.                   *)
(***************************************************************************)
AddWatermark(name, photo, outcome, before) ==
    IF outcome = "open_raises"
    THEN [call |-> NoCall, output |-> before]
    ELSE LET original_format == photo.format
             original_info == photo.info
             original_exif == InfoGet(original_info, "exif", "")
             reached_save == outcome # "draw_raises"
         IN  [call |->
                [returned |-> outcome = "ok",
                 decoded |-> TRUE,
                 photo |-> photo,
                 pixels |-> IF reached_save THEN "watermarked"
                            ELSE "original",
                 image_info |-> photo.info,
                 image_format |-> photo.format,
                 save_called |-> reached_save,
                 save_kwargs |->
                    IF reached_save
                    THEN SaveKwargs(name, original_format, original_info,
                                    original_exif)
                    ELSE NoKwargs],
              output |-> IF reached_save
                         THEN OutputAfterSave(outcome, before)
                         ELSE before]

BatchIdle ==
    /\ input_exists = FALSE
    /\ input_is_dir = FALSE
    /\ listing = <<>>
    /\ idx = 0
    /\ total_count = 0
    /\ processed_count = 0
    /\ results = <<>>
    /\ outputs = <<>>
    /\ last = NoCall
    /\ exit_status = -1

----------------------------------------------------------------------------
(* SpecFont *)

InitFont ==
    /\ pc = "font_input"
    /\ img_width \in FontDims
    /\ img_height \in FontDims
    /\ text_len \in TextLens
    /\ font_size = 0
    /\ TimeIdle
    /\ PosIdle
    /\ BatchIdle

FontSizeStep ==
    /\ pc = "font_input"
    /\ font_size' = CalculateOptimalFontSize(text_len, img_width, img_height)
    /\ pc' = "font_done"
    /\ UNCHANGED <<img_width, img_height, text_len, timeVars, posVars,
                   batchVars>>

NextFont == FontSizeStep

SpecFont == InitFont /\ [][NextFont]_vars

(***************************************************************************)
(* C3: for every text length L >= 1 and image W, H >= 1 the returned size  *)
(* is max(20, min(s, min(W,H) div 10)), s being the integer square root of *)
(* 0.03*W*H / (L*0.6*2): it is never below 20, never above min(W,H) div 10 *)
(* when that is at least 20, equal to s strictly between the two bounds,   *)
(* and 20 when the upper bound is 20 or less.                              *)
(***************************************************************************)
C3_FontSizeClamped ==
    pc = "font_done" =>
        LET m == Min(img_width, img_height) \div 10
            q == (img_width * img_height * 30) \div (1200 * text_len)
        IN  /\ font_size >= 20
            /\ (m >= 20 => font_size <= m)
            /\ (m <= 20 => font_size = 20)
            /\ (font_size > 20 /\ font_size < m =>
                    /\ font_size * font_size <= q
                    /\ q < (font_size + 1) * (font_size + 1))
            /\ (m > 20 /\ font_size = 20 => q < 21 * 21)
            /\ (m > 20 /\ font_size = m => m * m <= q)

\* the 4000x3000 scenario with a 19-character timestamp: 20 <= 125 <= 300
C3_Witness ==
    /\ pc = "font_done"
    /\ img_width = 4000 /\ img_height = 3000 /\ text_len = 19
    /\ font_size = 125

(***************************************************************************)
(* C4 as stated: a longer text never yields a larger size, and an image    *)
(* whose smaller side is at least that of another never yields a smaller   *)
(* size than that other image.                                             *)
(***************************************************************************)
C4_MonotoneInMinSide ==
    pc = "font_done" =>
        /\ \A l2 \in TextLens :
              l2 >= text_len =>
                CalculateOptimalFontSize(l2, img_width, img_height) <= font_size
        /\ \A w2 \in FontDims, h2 \in FontDims :
              Min(w2, h2) >= Min(img_width, img_height) =>
                CalculateOptimalFontSize(text_len, w2, h2) >= font_size

(***************************************************************************)
(* C4 amended: a longer text never yields a larger size, and an image      *)
(* whose smaller side and whose area are both at least those of another    *)
(* never yields a smaller size than that other image.                      *)
(***************************************************************************)
C4_MonotoneInMinSideAndArea ==
    pc = "font_done" =>
        /\ \A l2 \in TextLens :
              l2 >= text_len =>
                CalculateOptimalFontSize(l2, img_width, img_height) <= font_size
        /\ \A w2 \in FontDims, h2 \in FontDims :
              (/\ Min(w2, h2) >= Min(img_width, img_height)
               /\ w2 * h2 >= img_width * img_height) =>
                CalculateOptimalFontSize(text_len, w2, h2) >= font_size

\* a size that a longer text strictly lowers and a larger image strictly raises
C4_Witness ==
    /\ pc = "font_done"
    /\ \E l2 \in TextLens :
          /\ l2 > text_len
          /\ CalculateOptimalFontSize(l2, img_width, img_height) < font_size
    /\ \E w2 \in FontDims, h2 \in FontDims :
          /\ Min(w2, h2) >= Min(img_width, img_height)
          /\ w2 * h2 >= img_width * img_height
          /\ CalculateOptimalFontSize(text_len, w2, h2) > font_size

----------------------------------------------------------------------------
(* SpecTime *)

InitTime ==
    /\ pc = "time_input"
    /\ file \in Files
    /\ clock \in {NowA, NowB}
    /\ taken_time = NoResult
    /\ FontIdle
    /\ PosIdle
    /\ BatchIdle

GetPhotoTakenTimeStep ==
    /\ pc = "time_input"
    /\ taken_time' = GetPhotoTakenTime(file, clock)
    /\ pc' = "time_done"
    /\ UNCHANGED <<file, clock, fontVars, posVars, batchVars>>

NextTime == GetPhotoTakenTimeStep

SpecTime == InitTime /\ [][NextTime]_vars

(***************************************************************************)
(* C7: get_photo_taken_time always returns a timestamp and never raises:   *)
(* the parsed capture time when the file opens, its EXIF data is readable  *)
(* and holds a capture-time field matching YYYY:MM:DD HH:MM:SS (here the   *)
(* two well-formed stamps); otherwise the file's modification time; and the*)
(* current time only when the modification time is unavailable.            *)
(***************************************************************************)
C7_AlwaysReturnsATime ==
    pc = "time_done" =>
        LET readable == file.open_ok /\ ~file.exif_raises
            stamp == ExifGet(file.exif, DateTimeOriginalTag, StampEmpty)
            parsed ==
                IF stamp = StampValid
                THEN [year |-> 2024, month |-> 3, day |-> 15,
                      hour |-> 10, minute |-> 30, second |-> 0]
                ELSE [year |-> 2024, month |-> 2, day |-> 29,
                      hour |-> 23, minute |-> 59, second |-> 59]
        IN  /\ ~taken_time.raised
            /\ taken_time.source \in {"exif", "mtime", "now"}
            /\ IF readable /\ stamp \in {StampValid, StampLeapDay}
               THEN taken_time.source = "exif" /\ taken_time.time = parsed
               ELSE IF file.mtime_ok
               THEN taken_time.source = "mtime" /\ taken_time.time = file.mtime
               ELSE taken_time.source = "now" /\ taken_time.time = clock

\* a capture-time field that does not parse, on a file whose modification
\* time is unavailable too: the current time is returned
C7_Witness ==
    /\ pc = "time_done"
    /\ file.open_ok /\ ~file.exif_raises
    /\ ExifGet(file.exif, DateTimeOriginalTag, StampEmpty) = StampFeb30
    /\ ~file.mtime_ok
    /\ taken_time.source = "now"
    /\ taken_time.time = clock

----------------------------------------------------------------------------
(* SpecPos *)

InitPos ==
    /\ pc = "pos_input"
    /\ image \in Images
    /\ img_width \in PosDims
    /\ img_height \in PosDims
    /\ text_width \in TextWidths
    /\ text_height \in TextHeights
    /\ calc = NoCalc
    /\ drawn = NoDrawing
    /\ text_len = 0
    /\ font_size = 0
    /\ TimeIdle
    /\ BatchIdle

CalculateWatermarkPositionStep ==
    /\ pc = "pos_input"
    /\ calc' = CalculateWatermarkPosition(image, img_width, img_height,
                                          text_width, text_height)
    /\ pc' = "pos_done"
    /\ UNCHANGED <<image, text_width, text_height, drawn, fontVars, timeVars,
                   batchVars>>

AddTextWithOrientationStep ==
    /\ pc = "pos_done"
    /\ drawn' = AddTextWithOrientation(image, img_width, img_height,
                                       text_width, text_height, calc.position)
    /\ pc' = "drawn"
    /\ UNCHANGED <<image, text_width, text_height, calc, fontVars, timeVars,
                   batchVars>>

NextPos == CalculateWatermarkPositionStep \/ AddTextWithOrientationStep

SpecPos == InitPos /\ [][NextPos]_vars

\* the image carries EXIF data whose orientation tag is one of 1..8 (an
\* absent tag reads as 1)
TagInRange == HasExif(image) /\ Orientation(image) \in 1..8

(***************************************************************************)
(* C1: for every orientation tag 1..8, when the image is at least one      *)
(* pixel larger than the text in each dimension, both as stored and as     *)
(* displayed, the position returned by _calculate_watermark_position lies  *)
(* on the raw canvas: 0 <= x < rawWidth and 0 <= y < rawHeight.            *)
(***************************************************************************)
C1_PositionOnRawCanvas ==
    (/\ pc \in {"pos_done", "drawn"}
     /\ TagInRange
     /\ img_width >= text_width + 1 /\ img_height >= text_height + 1
     /\ calc.actual_width >= text_width + 1
     /\ calc.actual_height >= text_height + 1)
    => /\ 0 <= calc.position[1] /\ calc.position[1] < img_width
       /\ 0 <= calc.position[2] /\ calc.position[2] < img_height

(***************************************************************************)
(* C2: for every orientation tag 1..8, when the displayed image is at      *)
(* least one pixel larger than the text in each dimension, the text as     *)
(* drawn and then displayed has its right edge margin pixels from the      *)
(* displayed right edge and its bottom edge margin pixels from the         *)
(* displayed bottom edge (to within one pixel of rounding), margin being   *)
(* max(10, min(visualWidth, visualHeight) div 100).                        *)
(***************************************************************************)
C2_VisualBottomRight ==
    (/\ pc = "drawn"
     /\ TagInRange
     /\ calc.actual_width >= text_width + 1
     /\ calc.actual_height >= text_height + 1)
    => LET v == VisualRect(drawn.box, Orientation(image),
                           img_width, img_height)
           m == Max(10, Min(calc.actual_width, calc.actual_height) \div 100)
           right == 2 * (calc.actual_width - m)
           bottom == 2 * (calc.actual_height - m)
       IN  /\ drawn.box # EmptyRect
           /\ v.r - right \in -2..2
           /\ v.b - bottom \in -2..2

(***************************************************************************)
(* C9: for every orientation tag 1..8 and every visual rectangle inside    *)
(* the displayed canvas, _adjust_position_for_orientation returns the      *)
(* top-left corner of the raw rectangle (its sides swapped for tags 5..8)  *)
(* that the tag's display transform maps exactly onto the visual one.      *)
(***************************************************************************)
C9_InverseOfDisplayTransform ==
    LET actual_x == calc.actual_width - text_width - calc.margin
        actual_y == calc.actual_height - text_height - calc.margin
        o == Orientation(image)
        raw == IF o \in 5..8
               THEN TextBox(calc.adjusted, text_height, text_width)
               ELSE TextBox(calc.adjusted, text_width, text_height)
    IN  (/\ pc \in {"pos_done", "drawn"}
         /\ TagInRange
         /\ actual_x >= 0 /\ actual_y >= 0)
        => VisualRect(raw, o, img_width, img_height)
             = TextBox(<<actual_x, actual_y>>, text_width, text_height)

(***************************************************************************)
(* C10 as stated: the text is drawn unrotated on the image for tags 1, 2,  *)
(* 4 and 5, and on a scratch layer turned by 180 degrees for tag 3, by 90  *)
(* for tags 6 and 7 and by -90 for tag 8, the layer having the size of the *)
(* raw canvas, keeping it through the turn and being pasted at the origin. *)
(***************************************************************************)
C10_RotationTable ==
    (pc = "drawn" /\ TagInRange) =>
        LET o == Orientation(image)
        IN  /\ (o \in {1, 2, 4, 5} => drawn.via = "direct" /\ drawn.angle = 0)
            /\ (o = 3 => drawn.via = "layer" /\ drawn.angle = 180)
            /\ (o \in {6, 7} => drawn.via = "layer" /\ drawn.angle = 90)
            /\ (o = 8 => drawn.via = "layer" /\ drawn.angle = -90)
            /\ (drawn.via = "layer" =>
                    /\ drawn.layer_size = <<img_width, img_height>>
                    /\ ~drawn.expand
                    /\ drawn.paste_at = <<0, 0>>)

(***************************************************************************)
(* C10 amended: the text is drawn unrotated on the image for tags 1, 2, 4, *)
(* 5 and 7, and on a scratch layer turned by 180 degrees for tag 3, by 90  *)
(* for tag 6 and by -90 for tag 8, the layer having the size of the raw    *)
(* canvas, keeping it through the turn and being pasted at the origin.     *)
(***************************************************************************)
C10_RotationTableTag7Direct ==
    (pc = "drawn" /\ TagInRange) =>
        LET o == Orientation(image)
        IN  /\ (o \in {1, 2, 4, 5, 7} =>
                    drawn.via = "direct" /\ drawn.angle = 0)
            /\ (o = 3 => drawn.via = "layer" /\ drawn.angle = 180)
            /\ (o = 6 => drawn.via = "layer" /\ drawn.angle = 90)
            /\ (o = 8 => drawn.via = "layer" /\ drawn.angle = -90)
            /\ (drawn.via = "layer" =>
                    /\ drawn.layer_size = <<img_width, img_height>>
                    /\ ~drawn.expand
                    /\ drawn.paste_at = <<0, 0>>)

\* a photo with tag 7 whose text landed on the image, unrotated
C10_Witness ==
    /\ pc = "drawn"
    /\ HasExif(image) /\ Orientation(image) = 7
    /\ drawn.via = "direct"
    /\ drawn.box # EmptyRect

----------------------------------------------------------------------------
(* Spec: main, process_folder and add_watermark over a folder *)

Init ==
    /\ pc = "main"
    /\ input_exists \in BOOLEAN
    /\ input_is_dir \in BOOLEAN
    /\ input_is_dir => input_exists
    /\ listing \in (IF input_is_dir THEN Listings ELSE {<<>>})
    /\ idx = 0
    /\ total_count = 0
    /\ processed_count = 0
    /\ results = <<>>
    \* a first run finds no outputs, a later run those of the run before
    /\ \E rerun \in BOOLEAN :
         outputs = [i \in 1..Len(listing) |->
                      IF rerun /\ IsSupported(listing[i]) THEN "old"
                      ELSE "absent"]
    /\ last = NoCall
    /\ exit_status = -1
    /\ FontIdle
    /\ TimeIdle
    /\ PosIdle

\* main, lines 464-472: the input path is missing or no folder
MainRejects ==
    /\ pc = "main"
    /\ ~input_exists \/ ~input_is_dir
    /\ exit_status' = 1
    /\ pc' = "exited"
    /\ UNCHANGED <<input_exists, input_is_dir, listing, idx, total_count,
                   processed_count, results, outputs, last>>
    /\ UNCHANGED <<fontVars, timeVars, posVars>>

\* main, line 475, and process_folder, lines 431-442
MainStartsFolder ==
    /\ pc = "main"
    /\ input_exists /\ input_is_dir
    /\ processed_count' = 0
    /\ total_count' = 0
    /\ idx' = 0
    /\ pc' = "loop"
    /\ UNCHANGED <<input_exists, input_is_dir, listing, results, outputs,
                   last, exit_status>>
    /\ UNCHANGED <<fontVars, timeVars, posVars>>

\* process_folder, lines 445-446: an entry without a supported extension
SkipEntry ==
    /\ pc = "loop"
    /\ idx < Len(listing)
    /\ ~IsSupported(listing[idx + 1])
    /\ results' = Append(results, "skipped")
    /\ idx' = idx + 1
    /\ UNCHANGED <<pc, input_exists, input_is_dir, listing, total_count,
                   processed_count, outputs, last, exit_status>>
    /\ UNCHANGED <<fontVars, timeVars, posVars>>

\* process_folder, lines 445-452: an entry with a supported extension
ProcessEntry ==
    /\ pc = "loop"
    /\ idx < Len(listing)
    /\ IsSupported(listing[idx + 1])
    /\ \E photo \in Photos, outcome \in Outcomes :
         LET done == AddWatermark(listing[idx + 1], photo, outcome,
                                  outputs[idx + 1])
         IN  /\ total_count' = total_count + 1
             /\ processed_count' = IF done.call.returned
                                   THEN processed_count + 1
                                   ELSE processed_count
             /\ results' = Append(results, IF done.call.returned THEN "ok"
                                           ELSE "failed")
             /\ outputs' = [outputs EXCEPT ![idx + 1] = done.output]
             /\ last' = done.call
    /\ idx' = idx + 1
    /\ UNCHANGED <<pc, input_exists, input_is_dir, listing, exit_status>>
    /\ UNCHANGED <<fontVars, timeVars, posVars>>

\* process_folder, lines 454-455, and the return from main
FolderDone ==
    /\ pc = "loop"
    /\ idx = Len(listing)
    /\ exit_status' = 0
    /\ pc' = "exited"
    /\ UNCHANGED <<input_exists, input_is_dir, listing, idx, total_count,
                   processed_count, results, outputs, last>>
    /\ UNCHANGED <<fontVars, timeVars, posVars>>

Next ==
    \/ MainRejects
    \/ MainStartsFolder
    \/ SkipEntry
    \/ ProcessEntry
    \/ FolderDone

Spec == Init /\ [][Next]_vars

(***************************************************************************)
(* C5: in a run over an existing folder every entry is visited once; the   *)
(* entries whose name ends, case-insensitively, with a supported extension *)
(* (a.jpg, B.JPeG, c.Tif) are each attempted, whatever became of the       *)
(* entries before them, and the others (d.txt, mask) are skipped;          *)
(* total_count is the number of supported entries, processed_count the     *)
(* number of those that succeeded, and the exit status is zero.            *)
(***************************************************************************)
C5_BatchCounts ==
    (pc = "exited" /\ input_exists /\ input_is_dir) =>
        LET supported == {i \in 1..Len(listing) :
                            listing[i] \in {NameLowerJpg, NameMixedJpeg,
                                            NameTif}}
            succeeded == {i \in 1..Len(results) : results[i] = "ok"}
        IN  /\ Len(results) = Len(listing)
            /\ \A i \in 1..Len(listing) :
                 IF i \in supported THEN results[i] \in {"ok", "failed"}
                 ELSE results[i] = "skipped"
            /\ total_count = Cardinality(supported)
            /\ processed_count = Cardinality(succeeded)
            /\ processed_count <= total_count
            /\ exit_status = 0

\* a finished run in which a file failed, a later one succeeded and an entry
\* was skipped
C5_Witness ==
    /\ pc = "exited"
    /\ exit_status = 0
    /\ total_count = 2
    /\ processed_count = 1
    /\ \E i \in 1..Len(results), j \in 1..Len(results) :
         i < j /\ results[i] = "failed" /\ results[j] = "ok"
    /\ \E k \in 1..Len(results) : results[k] = "skipped"

(***************************************************************************)
(* C6: once add_watermark has returned for a photo, either it returned     *)
(* True and the output file is completely written, or it returned False    *)
(* and the output file was not written at all: it is as it was before the  *)
(* call, absent or left by an earlier run.                                 *)
(***************************************************************************)
C6_NoPartialOutput ==
    \A i \in 1..Len(results) :
        /\ results[i] = "ok" => outputs[i] = "complete"
        /\ results[i] = "failed" => outputs[i] \in {"absent", "old"}

(***************************************************************************)
(* C8: when add_watermark succeeds, the keyword arguments handed to the    *)
(* encoder hold the EXIF blob and every other metadata field exactly as    *)
(* read at decode time, the original format and nothing else, and the      *)
(* image's own metadata and format are as decoded: only its pixels changed.*)
(***************************************************************************)
C8_MetadataHandedUnchanged ==
    last.returned =>
        /\ last.save_called
        /\ InfoGet(last.save_kwargs, "exif", "")
             = InfoGet(last.photo.info, "exif", "")
        /\ DOMAIN last.save_kwargs = DOMAIN last.photo.info \cup {"format"}
        /\ \A k \in DOMAIN last.photo.info :
             last.save_kwargs[k] = last.photo.info[k]
        /\ last.save_kwargs["format"] = last.photo.format
        /\ last.image_info = last.photo.info
        /\ last.image_format = last.photo.format
        /\ last.pixels = "watermarked"

\* a PNG with an EXIF blob, a resolution and a colour profile, saved
C8_Witness ==
    /\ last.returned
    /\ last.photo.format = "PNG"
    /\ DOMAIN last.photo.info = {"exif", "dpi", "icc_profile"}
    /\ last.save_kwargs["exif"] = "exif-with-orientation-3"

====
